---- MODULE Spec2Model ----
(***************************************************************************)
(* Generation-state management of the product-photography studio          *)
(* (App component, src/unnamed/part_000): per-feature operation statuses,  *)
(* per-feature undo/redo stacks, the session log with settings snapshots,  *)
(* the explicit log selection and the canvas image derived from them.      *)
(*                                                                         *)
(* Every event handler is one action over the state it reads at the time   *)
(* of the event.  The asynchronous handlers are split at their awaits: the *)
(* synchronous prefix is one action, each continuation another, and the    *)
(* values the continuation closes over are kept in the in-flight record.   *)
(* React effects (useEffect) run after the render that follows a handler;  *)
(* FlushEffects models them and every other action waits for it.           *)
(* Reading an uploaded file and decoding an image (FileReader, Image       *)
(* onload) are taken together with the handler that starts them.           *)
(*                                                                         *)
(* Controls that are only copied into the snapshot and handed to the       *)
(* collaborators (aspectRatio, gender, promptBuilder, the three enhancer   *)
(* toggles) and the File object of an asset are not part of the state.     *)
(***************************************************************************)
EXTENDS Integers, Sequences, FiniteSets, TLC

\* ---------------------------------------------------------------- bounds
\* generationIdCounter stops being incremented at this value
MaxGenerations == 2
\* prompt-suggestion requests in flight
MaxPromptJobs == 1

\* ---------------------------------------------------------------- values
Null == "null"
\* activeGenerationId === null
NoGeneration == -1

Modes == {"background", "ai-model"}
BackgroundSubModes == {"color", "scene"}
ServiceBackgroundSubModes == {"color", "scene", "transparent"}
ModelSources == {"ai", "custom"}
AppTabs == {"settings", "history"}
FeatureKeys == {"background-color", "background-scene", "background-transparent",
                "ai-model-ai", "ai-model-custom"}
\* LoadingStep
NotLoading == ""
Generating == "Generating..."
Blending == "Blending concepts..."
LoadingSteps == {NotLoading, Generating, Blending}

DefaultColor == "#f0f0f0"
Colors == {DefaultColor, "transparent"}
Prompts == {"", "on a marble countertop"}
Suggestions == {"on a marble countertop"}
ProductUrls == {"product.png"}
ModelUrls == {"model.png"}
\* a second model image, for the sessions that replace the model image
OtherModelUrls == {"model-2.png"}
\* the data URL the collaborator returns for the request of generation id
ResultImage(id) == "result-" \o ToString(id)
ErrorMessages == {"blocked by safety policy"}
\* the prompt field a suggestion request fills: scene, ai or custom
PromptKinds == {"scene", "ai", "custom"}
\* naturalWidth / naturalHeight of a decoded upload
NaturalSize == 800

initialOpStatus == [isLoading |-> NotLoading, error |-> Null]
initialBackgroundStatuses == [s \in ServiceBackgroundSubModes |-> initialOpStatus]
initialAiModelStatuses == [s \in ModelSources |-> initialOpStatus]
initialAiModelPromptLoading == [s \in ModelSources |-> FALSE]
initialProductImage == [url |-> Null, originalWidth |-> 0, originalHeight |-> 0]
initialModelImage == [url |-> Null, originalWidth |-> 0, originalHeight |-> 0]
initialGenerationStack == [images |-> <<>>, currentIndex |-> -1]
initialGenerationStacks == [k \in FeatureKeys |-> initialGenerationStack]

\* ---------------------------------------------------------------- state
VARIABLES
    mode, backgroundSubMode, backgroundColor, modelSource,
    scenePrompt, aiGeneratedPrompt, yourModelPrompt,
    activeTab, isMobileHistoryOpen, newHistoryNotification,
    productImage, modelImage,
    generationStacks,
    sessionGenerations, activeGenerationId, generationIdCounter,
    backgroundStatuses, aiModelStatuses,
    isScenePromptLoading, isAiModelPromptLoading,
    currentFeatureKeyRef, effectDeps,
    jobs, promptJobs,
    geminiCall

controls == <<mode, backgroundSubMode, backgroundColor, modelSource>>
prompts == <<scenePrompt, aiGeneratedPrompt, yourModelPrompt>>
panels == <<activeTab, isMobileHistoryOpen, newHistoryNotification>>
assets == <<productImage, modelImage>>
history == <<generationStacks, sessionGenerations, activeGenerationId, generationIdCounter>>
statuses == <<backgroundStatuses, aiModelStatuses>>
promptFlags == <<isScenePromptLoading, isAiModelPromptLoading>>
effectState == <<currentFeatureKeyRef, effectDeps>>
inflight == <<jobs, promptJobs>>
vars == <<controls, prompts, panels, assets, history, statuses, promptFlags,
          effectState, inflight, geminiCall>>

\* ---------------------------------------------------------------- helpers
\* mutant: the transparent colour wins in every sub-mode
EffectiveSubModeOfColor(sm, color) ==
    IF color = "transparent" THEN "transparent" ELSE sm

EffectiveSubMode(sm, color) ==
    IF sm = "color" /\ color = "transparent" THEN "transparent" ELSE sm

FeatureKeyOf(m, sm, color, src) ==
    IF m = "background"
    THEN "background-" \o EffectiveSubMode(sm, color)
    ELSE "ai-model-" \o src

getCurrentFeatureKey ==
    FeatureKeyOf(mode, backgroundSubMode, backgroundColor, modelSource)

\* the OperationStatus slot a feature key names
StatusOf(k) ==
    CASE k = "background-color" -> backgroundStatuses["color"]
      [] k = "background-scene" -> backgroundStatuses["scene"]
      [] k = "background-transparent" -> backgroundStatuses["transparent"]
      [] k = "ai-model-ai" -> aiModelStatuses["ai"]
      [] k = "ai-model-custom" -> aiModelStatuses["custom"]

currentStatus ==
    IF mode = "background"
    THEN backgroundStatuses[EffectiveSubMode(backgroundSubMode, backgroundColor)]
    ELSE aiModelStatuses[modelSource]

\* mutant: the button does not look at the prompts
canGenerateWithoutPrompt ==
    IF currentStatus.isLoading # NotLoading THEN FALSE
    ELSE IF mode = "background" /\ productImage.url # Null THEN TRUE
    ELSE IF mode = "ai-model" /\ modelSource = "ai"
         THEN productImage.url # Null
    ELSE IF mode = "ai-model" /\ modelSource = "custom"
         THEN productImage.url # Null /\ modelImage.url # Null
    ELSE FALSE

canGenerate ==
    IF currentStatus.isLoading # NotLoading THEN FALSE
    ELSE IF mode = "background" /\ productImage.url # Null THEN TRUE
    ELSE IF mode = "ai-model" /\ modelSource = "ai"
         THEN productImage.url # Null /\ aiGeneratedPrompt # ""
    ELSE IF mode = "ai-model" /\ modelSource = "custom"
         THEN productImage.url # Null /\ modelImage.url # Null /\ yourModelPrompt # ""
    ELSE FALSE

currentStack == generationStacks[getCurrentFeatureKey]
\* mutant: the first image cannot be undone
canUndoPastFirst == currentStack.currentIndex > 0
canUndo == currentStack.currentIndex >= 0
canRedo == currentStack.currentIndex < Len(currentStack.images) - 1

\* sessionGenerations.find(g => g.id === id): the set holds the first match
FindGeneration(log, id) ==
    LET hits == {i \in 1..Len(log) : log[i].id = id}
    IN IF hits = {} THEN {}
       ELSE {log[CHOOSE i \in hits : \A j \in hits : i <= j]}

\* mutant: the filter drops every record
FilterOutAll(log, id) == SelectSeq(log, LAMBDA g : FALSE)

\* mutant: the filter keeps the record it should drop
FilterOutInverted(log, id) == SelectSeq(log, LAMBDA g : g.id = id)

\* prev.filter(gen => gen.id !== id)
FilterOut(log, id) == SelectSeq(log, LAMBDA g : g.id # id)

\* mutant: the canvas ignores the selection
canvasDisplayUrlFromStack ==
    LET stack == generationStacks[getCurrentFeatureKey]
    IN IF stack.currentIndex >= 0
       THEN stack.images[stack.currentIndex + 1]
       ELSE Null

canvasDisplayUrl ==
    IF activeGenerationId # NoGeneration
    THEN LET found == FindGeneration(sessionGenerations, activeGenerationId)
         IN IF found = {} THEN Null ELSE (CHOOSE g \in found : TRUE).src
    ELSE LET stack == generationStacks[getCurrentFeatureKey]
         IN IF stack.currentIndex >= 0
            THEN stack.images[stack.currentIndex + 1]
            ELSE Null

\* mutant: the snapshot stores the default colour instead of the chosen one
SnapshotWithDefaultColor ==
    [mode |-> mode, backgroundSubMode |-> backgroundSubMode,
     modelSource |-> modelSource, backgroundColor |-> DefaultColor,
     scenePrompt |-> scenePrompt, aiGeneratedPrompt |-> aiGeneratedPrompt,
     yourModelPrompt |-> yourModelPrompt,
     productImageUrl |-> productImage.url, modelImageUrl |-> modelImage.url]

Snapshot ==
    [mode |-> mode, backgroundSubMode |-> backgroundSubMode,
     modelSource |-> modelSource, backgroundColor |-> backgroundColor,
     scenePrompt |-> scenePrompt, aiGeneratedPrompt |-> aiGeneratedPrompt,
     yourModelPrompt |-> yourModelPrompt,
     productImageUrl |-> productImage.url, modelImageUrl |-> modelImage.url]

\* ---------------------------------------------------------------- effects
\* the dependency list of the error-clearing effect
ErrorEffectDeps == <<mode, backgroundSubMode, modelSource, backgroundColor>>

\* mutant: the deselect effect compares with the key of the chosen sub-mode
\* and does not look at the colour
DeselectNeededIgnoringColor ==
    /\ activeTab = "settings"
    /\ activeGenerationId # NoGeneration
    /\ \E g \in FindGeneration(sessionGenerations, activeGenerationId) :
          g.featureKey # FeatureKeyOf(mode, backgroundSubMode, DefaultColor, modelSource)

DeselectNeeded ==
    /\ activeTab = "settings"
    /\ activeGenerationId # NoGeneration
    /\ \E g \in FindGeneration(sessionGenerations, activeGenerationId) :
          g.featureKey # getCurrentFeatureKey

EffectsPending ==
    \/ currentFeatureKeyRef # getCurrentFeatureKey
    \/ effectDeps # ErrorEffectDeps
    \/ DeselectNeeded

\* mutant: a completion may run between a commit and its effects
IdleBeforeEffects == TRUE

\* the effects of a render run before the next event or completion is handled
Idle == ~EffectsPending

\* mutant: the error-clearing effect resets the whole slot
FlushEffectsResetsSlot ==
    /\ EffectsPending
    /\ currentFeatureKeyRef' = getCurrentFeatureKey
    /\ effectDeps' = ErrorEffectDeps
    /\ IF effectDeps # ErrorEffectDeps /\ mode = "background"
       THEN LET sm == EffectiveSubMode(backgroundSubMode, backgroundColor)
            IN backgroundStatuses' =
                 [backgroundStatuses EXCEPT ![sm] = initialOpStatus]
       ELSE UNCHANGED backgroundStatuses
    /\ IF effectDeps # ErrorEffectDeps /\ mode = "ai-model"
       THEN aiModelStatuses' =
              [aiModelStatuses EXCEPT ![modelSource] = initialOpStatus]
       ELSE UNCHANGED aiModelStatuses
    /\ activeGenerationId' = IF DeselectNeeded THEN NoGeneration ELSE activeGenerationId
    /\ UNCHANGED <<geminiCall, controls, prompts, panels, assets, generationStacks,
                   sessionGenerations, generationIdCounter, promptFlags, inflight>>

FlushEffects ==
    /\ EffectsPending
    /\ currentFeatureKeyRef' = getCurrentFeatureKey
    /\ effectDeps' = ErrorEffectDeps
    /\ IF effectDeps # ErrorEffectDeps /\ mode = "background"
       THEN LET sm == EffectiveSubMode(backgroundSubMode, backgroundColor)
            IN backgroundStatuses' =
                 [backgroundStatuses EXCEPT ![sm] = [@ EXCEPT !.error = Null]]
       ELSE UNCHANGED backgroundStatuses
    /\ IF effectDeps # ErrorEffectDeps /\ mode = "ai-model"
       THEN aiModelStatuses' =
              [aiModelStatuses EXCEPT ![modelSource] = [@ EXCEPT !.error = Null]]
       ELSE UNCHANGED aiModelStatuses
    /\ activeGenerationId' = IF DeselectNeeded THEN NoGeneration ELSE activeGenerationId
    /\ UNCHANGED <<geminiCall, controls, prompts, panels, assets, generationStacks,
                   sessionGenerations, generationIdCounter, promptFlags, inflight>>

\* ---------------------------------------------------------------- gemini service
\* callGeminiWithRetry of the generation service. An error message is a
\* sequence of fragments; includes() finds a fragment, toLowerCase() maps each
\* fragment to its lower-case form.
maxRetries == 3
initialDelay == 1000

ResponseOutcome == "response"
RegionErrorMessage == <<"AI image generation is not available in your region">>
RetriesExhaustedMessage == <<"Gemini API call failed after all retries.">>

ApiErrorMessages ==
    { <<"got status:", "500">>,
      <<"503", "The model is overloaded">>,
      <<"INTERNAL">>,
      <<"Not Available In Your Country", "internal">>,
      <<"412", "User location is", "not available in your country">>,
      <<"412", "Not Available In Your Country", "500">>,
      <<"412", "Precondition Failed">>,
      <<"400", "INVALID_ARGUMENT">> }

toLowerCase(fragment) ==
    CASE fragment = "INTERNAL" -> "internal"
      [] fragment = "Not Available In Your Country" -> "not available in your country"
      [] fragment = "INVALID_ARGUMENT" -> "invalid_argument"
      [] fragment = "The model is overloaded" -> "the model is overloaded"
      [] fragment = "User location is" -> "user location is"
      [] fragment = "Precondition Failed" -> "precondition failed"
      [] OTHER -> fragment

LowerCased(errorMessage) ==
    [i \in 1..Len(errorMessage) |-> toLowerCase(errorMessage[i])]

Includes(errorMessage, fragment) ==
    \E i \in 1..Len(errorMessage) : errorMessage[i] = fragment

isRegionRestricted(errorMessage) ==
    /\ Includes(errorMessage, "412")
    /\ Includes(LowerCased(errorMessage), "not available in your country")

\* mutant: every error counts as retriable
isAnyError(errorMessage) == TRUE

isInternalError(errorMessage) ==
    \/ Includes(errorMessage, "500")
    \/ Includes(errorMessage, "503")
    \/ Includes(LowerCased(errorMessage), "internal")

RECURSIVE Pow2(_)
Pow2(n) == IF n = 0 THEN 1 ELSE 2 * Pow2(n - 1)

\* mutant: the same delay before every retry
RetryDelayFlat(attempt) == initialDelay

RetryDelay(attempt) == initialDelay * Pow2(attempt - 1)

\* pc: idle, request (awaiting generateContent), sleep (awaiting the retry
\* timer), returned, thrown; errors are the messages logged by the catch block
initialGeminiCall ==
    [pc |-> "idle", attempt |-> 0, errors |-> <<>>, delays |-> <<>>,
     outcome |-> Null]

appVars == <<controls, prompts, panels, assets, history, statuses, promptFlags,
             effectState, inflight>>

\* the call enters the loop with attempt = 1 and issues the first request
callGeminiWithRetry ==
    /\ geminiCall.pc = "idle"
    /\ geminiCall' = [geminiCall EXCEPT
                        !.attempt = 1,
                        !.pc = IF 1 <= maxRetries THEN "request" ELSE "thrown",
                        !.outcome = IF 1 <= maxRetries THEN Null
                                    ELSE RetriesExhaustedMessage]
    /\ UNCHANGED appVars

\* ai.models.generateContent resolved: return await
generateContentResolved ==
    /\ geminiCall.pc = "request"
    /\ geminiCall' = [geminiCall EXCEPT !.pc = "returned",
                                        !.outcome = ResponseOutcome]
    /\ UNCHANGED appVars

\* ai.models.generateContent rejected: the catch block
generateContentRejected(errorMessage) ==
    /\ geminiCall.pc = "request"
    /\ LET logged == [geminiCall EXCEPT !.errors = Append(@, errorMessage)]
       IN geminiCall' =
            IF isRegionRestricted(errorMessage)
            THEN [logged EXCEPT !.pc = "thrown", !.outcome = RegionErrorMessage]
            ELSE IF isInternalError(errorMessage) /\ geminiCall.attempt < maxRetries
            THEN [logged EXCEPT !.pc = "sleep",
                                !.delays = Append(@, RetryDelay(geminiCall.attempt))]
            ELSE [logged EXCEPT !.pc = "thrown", !.outcome = errorMessage]
    /\ UNCHANGED appVars

\* the retry timer fired: continue, attempt++, loop test, next request
retryTimerFired ==
    /\ geminiCall.pc = "sleep"
    /\ geminiCall' = [geminiCall EXCEPT
                        !.attempt = @ + 1,
                        !.pc = IF geminiCall.attempt + 1 <= maxRetries
                               THEN "request" ELSE "thrown",
                        !.outcome = IF geminiCall.attempt + 1 <= maxRetries
                                    THEN Null ELSE RetriesExhaustedMessage]
    /\ UNCHANGED appVars

\* ---------------------------------------------------------------- Init
Init ==
    /\ mode = "background"
    /\ backgroundSubMode = "color"
    /\ backgroundColor = DefaultColor
    /\ modelSource = "ai"
    /\ scenePrompt = ""
    /\ aiGeneratedPrompt = ""
    /\ yourModelPrompt = ""
    /\ activeTab = "settings"
    /\ isMobileHistoryOpen = FALSE
    /\ newHistoryNotification = FALSE
    /\ productImage = initialProductImage
    /\ modelImage = initialModelImage
    /\ generationStacks = initialGenerationStacks
    /\ sessionGenerations = <<>>
    /\ activeGenerationId = NoGeneration
    /\ generationIdCounter = 0
    /\ backgroundStatuses = initialBackgroundStatuses
    /\ aiModelStatuses = initialAiModelStatuses
    /\ isScenePromptLoading = FALSE
    /\ isAiModelPromptLoading = initialAiModelPromptLoading
    /\ currentFeatureKeyRef = "background-color"
    /\ effectDeps = <<"background", "color", "ai", DefaultColor>>
    /\ jobs = {}
    /\ promptJobs = [k \in PromptKinds |-> 0]
    /\ geminiCall = initialGeminiCall

\* ---------------------------------------------------------------- controls
\* mutant: a mode change leaves the selection to the deselect effect
handleSetModeKeepsSelection(newMode) ==
    /\ Idle
    /\ IF mode # newMode
       THEN mode' = newMode
       ELSE UNCHANGED mode
    /\ UNCHANGED <<geminiCall, backgroundSubMode, backgroundColor, modelSource, prompts, panels,
                   assets, history, statuses, promptFlags, effectState, inflight>>

handleSetMode(newMode) ==
    /\ Idle
    /\ IF mode # newMode
       THEN /\ mode' = newMode
            /\ activeGenerationId' = NoGeneration
       ELSE UNCHANGED <<mode, activeGenerationId>>
    /\ UNCHANGED <<geminiCall, backgroundSubMode, backgroundColor, modelSource, prompts, panels,
                   assets, generationStacks, sessionGenerations, generationIdCounter,
                   statuses, promptFlags, effectState, inflight>>

handleSetBackgroundSubMode(newSubMode) ==
    /\ Idle
    /\ IF backgroundSubMode # newSubMode
       THEN /\ backgroundSubMode' = newSubMode
            /\ activeGenerationId' = NoGeneration
       ELSE UNCHANGED <<backgroundSubMode, activeGenerationId>>
    /\ UNCHANGED <<geminiCall, mode, backgroundColor, modelSource, prompts, panels,
                   assets, generationStacks, sessionGenerations, generationIdCounter,
                   statuses, promptFlags, effectState, inflight>>

handleSetModelSource(newSource) ==
    /\ Idle
    /\ IF modelSource # newSource
       THEN /\ modelSource' = newSource
            /\ activeGenerationId' = NoGeneration
       ELSE UNCHANGED <<modelSource, activeGenerationId>>
    /\ UNCHANGED <<geminiCall, mode, backgroundSubMode, backgroundColor, prompts, panels,
                   assets, generationStacks, sessionGenerations, generationIdCounter,
                   statuses, promptFlags, effectState, inflight>>

setBackgroundColor(color) ==
    /\ Idle
    /\ backgroundColor' = color
    /\ UNCHANGED <<geminiCall, mode, backgroundSubMode, modelSource, prompts, panels, assets,
                   history, statuses, promptFlags, effectState, inflight>>

setScenePrompt(p) ==
    /\ Idle
    /\ scenePrompt' = p
    /\ UNCHANGED <<geminiCall, controls, aiGeneratedPrompt, yourModelPrompt, panels, assets,
                   history, statuses, promptFlags, effectState, inflight>>

\* the model-prompt textarea writes the prompt of the visible model source
setModelPrompt(p) ==
    /\ Idle
    /\ IF modelSource = "ai"
       THEN aiGeneratedPrompt' = p /\ UNCHANGED yourModelPrompt
       ELSE yourModelPrompt' = p /\ UNCHANGED aiGeneratedPrompt
    /\ UNCHANGED <<geminiCall, controls, scenePrompt, panels, assets,
                   history, statuses, promptFlags, effectState, inflight>>

setActiveTabSettings ==
    /\ Idle
    /\ activeTab' = "settings"
    /\ UNCHANGED <<geminiCall, controls, prompts, isMobileHistoryOpen, newHistoryNotification,
                   assets, history, statuses, promptFlags, effectState, inflight>>

openHistoryTab ==
    /\ Idle
    /\ activeTab' = "history"
    /\ newHistoryNotification' = FALSE
    /\ UNCHANGED <<geminiCall, controls, prompts, isMobileHistoryOpen,
                   assets, history, statuses, promptFlags, effectState, inflight>>

openMobileHistory ==
    /\ Idle
    /\ isMobileHistoryOpen' = TRUE
    /\ newHistoryNotification' = FALSE
    /\ UNCHANGED <<geminiCall, controls, prompts, activeTab,
                   assets, history, statuses, promptFlags, effectState, inflight>>

closeMobileHistory ==
    /\ Idle
    /\ isMobileHistoryOpen' = FALSE
    /\ UNCHANGED <<geminiCall, controls, prompts, activeTab, newHistoryNotification,
                   assets, history, statuses, promptFlags, effectState, inflight>>

\* ---------------------------------------------------------------- history
\* mutant: the push appends without cutting the redoable images
PushImageAppend(stack, imageUrl) ==
    [images |-> stack.images \o <<imageUrl>>, currentIndex |-> Len(stack.images)]

\* the branch-overwrite push of recordNewGeneration's setGenerationStacks
PushImage(stack, imageUrl) ==
    LET newImages == SubSeq(stack.images, 1, stack.currentIndex + 1) \o <<imageUrl>>
    IN [images |-> newImages, currentIndex |-> Len(newImages) - 1]

\* mutant: the finished record takes the settings of the moment of completion
MarkDoneResnapshots(log, generationId, imageUrl) ==
    [i \in 1..Len(log) |->
        IF log[i].id = generationId
        THEN [log[i] EXCEPT !.src = imageUrl, !.status = "done", !.snapshot = Snapshot]
        ELSE log[i]]

\* mutant: the finished record moves to the head of the log
MarkDoneMovesToHead(log, generationId, imageUrl) ==
    [i \in 1..Len(SelectSeq(log, LAMBDA g : g.id = generationId)) |->
        [SelectSeq(log, LAMBDA g : g.id = generationId)[i]
           EXCEPT !.src = imageUrl, !.status = "done"]]
    \o SelectSeq(log, LAMBDA g : g.id # generationId)

\* mutant: the image is stored and the record stays loading
MarkDoneKeepsLoading(log, generationId, imageUrl) ==
    [i \in 1..Len(log) |->
       IF log[i].id = generationId
       THEN [log[i] EXCEPT !.src = imageUrl]
       ELSE log[i]]

\* prev.map(gen => gen.id === generationId ? {...gen, src, status: 'done'} : gen)
MarkDone(log, generationId, imageUrl) ==
    [i \in 1..Len(log) |->
        IF log[i].id = generationId
        THEN [log[i] EXCEPT !.src = imageUrl, !.status = "done"]
        ELSE log[i]]

\* mutant: the result is selected as if the feature of the submission were
\* still the active one
recordNewGenerationSelectsAlways(imageUrl, generationId, featureKey, closureTab, closureMobileOpen) ==
    /\ sessionGenerations' = MarkDone(sessionGenerations, generationId, imageUrl)
    /\ activeGenerationId' = generationId
    /\ \E isMobile \in BOOLEAN :
         newHistoryNotification' =
           IF \/ isMobile /\ ~closureMobileOpen
              \/ ~isMobile /\ closureTab # "history"
           THEN TRUE ELSE newHistoryNotification
    /\ generationStacks' =
         [generationStacks EXCEPT ![featureKey] = PushImage(@, imageUrl)]

\* mutant: the result goes to the stack of the feature that is active now
recordNewGenerationIntoActiveStack(imageUrl, generationId, featureKey, closureTab, closureMobileOpen) ==
    /\ sessionGenerations' = MarkDone(sessionGenerations, generationId, imageUrl)
    /\ activeGenerationId' =
         IF featureKey = currentFeatureKeyRef THEN generationId ELSE activeGenerationId
    /\ \E isMobile \in BOOLEAN :
         newHistoryNotification' =
           IF \/ isMobile /\ ~closureMobileOpen
              \/ ~isMobile /\ closureTab # "history"
           THEN TRUE ELSE newHistoryNotification
    /\ generationStacks' =
         [generationStacks EXCEPT ![currentFeatureKeyRef] = PushImage(@, imageUrl)]

\* closureTab and closureMobileOpen are activeTab and isMobileHistoryOpen of
\* the render whose handler started the job; isMobile is window.innerWidth < 1024
recordNewGeneration(imageUrl, generationId, featureKey, closureTab, closureMobileOpen) ==
    /\ sessionGenerations' = MarkDone(sessionGenerations, generationId, imageUrl)
    /\ activeGenerationId' =
         IF featureKey = currentFeatureKeyRef THEN generationId ELSE activeGenerationId
    /\ \E isMobile \in BOOLEAN :
         newHistoryNotification' =
           IF \/ isMobile /\ ~closureMobileOpen
              \/ ~isMobile /\ closureTab # "history"
           THEN TRUE ELSE newHistoryNotification
    /\ generationStacks' =
         [generationStacks EXCEPT ![featureKey] = PushImage(@, imageUrl)]

\* mutant: undo without the floor check
handleUndoUnchecked ==
    /\ Idle
    /\ LET featureKey == getCurrentFeatureKey
           stack == generationStacks[featureKey]
       IN generationStacks' =
            [generationStacks EXCEPT
               ![featureKey] = [stack EXCEPT !.currentIndex = stack.currentIndex - 1]]
    /\ activeGenerationId' = NoGeneration
    /\ UNCHANGED <<geminiCall, controls, prompts, panels, assets, sessionGenerations,
                   generationIdCounter, statuses, promptFlags, effectState, inflight>>

\* mutant: undo lowers the cursor of every stack that has one to lower
handleUndoEveryStack ==
    /\ Idle
    /\ generationStacks' =
         [k \in FeatureKeys |->
            IF generationStacks[k].currentIndex >= 0
            THEN [generationStacks[k] EXCEPT !.currentIndex = @ - 1]
            ELSE generationStacks[k]]
    /\ activeGenerationId' = NoGeneration
    /\ UNCHANGED <<geminiCall, controls, prompts, panels, assets, sessionGenerations,
                   generationIdCounter, statuses, promptFlags, effectState, inflight>>

handleUndo ==
    /\ Idle
    /\ LET featureKey == getCurrentFeatureKey
           stack == generationStacks[featureKey]
       IN generationStacks' =
            IF stack.currentIndex >= 0
            THEN [generationStacks EXCEPT
                    ![featureKey] = [stack EXCEPT !.currentIndex = stack.currentIndex - 1]]
            ELSE generationStacks
    /\ activeGenerationId' = NoGeneration
    /\ UNCHANGED <<geminiCall, controls, prompts, panels, assets, sessionGenerations,
                   generationIdCounter, statuses, promptFlags, effectState, inflight>>

\* mutant: redo without the ceiling check
handleRedoUnchecked ==
    /\ Idle
    /\ LET featureKey == getCurrentFeatureKey
           stack == generationStacks[featureKey]
       IN generationStacks' =
            [generationStacks EXCEPT
               ![featureKey] = [stack EXCEPT !.currentIndex = stack.currentIndex + 1]]
    /\ activeGenerationId' = NoGeneration
    /\ UNCHANGED <<geminiCall, controls, prompts, panels, assets, sessionGenerations,
                   generationIdCounter, statuses, promptFlags, effectState, inflight>>

handleRedo ==
    /\ Idle
    /\ LET featureKey == getCurrentFeatureKey
           stack == generationStacks[featureKey]
       IN generationStacks' =
            IF stack.currentIndex < Len(stack.images) - 1
            THEN [generationStacks EXCEPT
                    ![featureKey] = [stack EXCEPT !.currentIndex = stack.currentIndex + 1]]
            ELSE generationStacks
    /\ activeGenerationId' = NoGeneration
    /\ UNCHANGED <<geminiCall, controls, prompts, panels, assets, sessionGenerations,
                   generationIdCounter, statuses, promptFlags, effectState, inflight>>

\* mutant: Start Over leaves the status slots as they are
handleStartOverKeepsStatuses ==
    /\ Idle
    /\ mode' = "background"
    /\ backgroundSubMode' = "color"
    /\ activeTab' = "settings"
    /\ isMobileHistoryOpen' = FALSE
    /\ productImage' = initialProductImage
    /\ modelImage' = initialModelImage
    /\ generationStacks' = initialGenerationStacks
    /\ isScenePromptLoading' = FALSE
    /\ isAiModelPromptLoading' = initialAiModelPromptLoading
    /\ backgroundColor' = DefaultColor
    /\ scenePrompt' = ""
    /\ aiGeneratedPrompt' = ""
    /\ yourModelPrompt' = ""
    /\ modelSource' = "ai"
    /\ sessionGenerations' = <<>>
    /\ activeGenerationId' = NoGeneration
    /\ newHistoryNotification' = FALSE
    /\ UNCHANGED <<geminiCall, statuses, generationIdCounter, effectState, inflight>>

\* mutant: Start Over restarts the id counter
handleStartOverResetsCounter ==
    /\ Idle
    /\ mode' = "background"
    /\ backgroundSubMode' = "color"
    /\ activeTab' = "settings"
    /\ isMobileHistoryOpen' = FALSE
    /\ productImage' = initialProductImage
    /\ modelImage' = initialModelImage
    /\ generationStacks' = initialGenerationStacks
    /\ backgroundStatuses' = initialBackgroundStatuses
    /\ aiModelStatuses' = initialAiModelStatuses
    /\ isScenePromptLoading' = FALSE
    /\ isAiModelPromptLoading' = initialAiModelPromptLoading
    /\ backgroundColor' = DefaultColor
    /\ scenePrompt' = ""
    /\ aiGeneratedPrompt' = ""
    /\ yourModelPrompt' = ""
    /\ modelSource' = "ai"
    /\ sessionGenerations' = <<>>
    /\ activeGenerationId' = NoGeneration
    /\ newHistoryNotification' = FALSE
    /\ generationIdCounter' = 0
    /\ UNCHANGED <<geminiCall, effectState, inflight>>

handleStartOver ==
    /\ Idle
    /\ mode' = "background"
    /\ backgroundSubMode' = "color"
    /\ activeTab' = "settings"
    /\ isMobileHistoryOpen' = FALSE
    /\ productImage' = initialProductImage
    /\ modelImage' = initialModelImage
    /\ generationStacks' = initialGenerationStacks
    /\ backgroundStatuses' = initialBackgroundStatuses
    /\ aiModelStatuses' = initialAiModelStatuses
    /\ isScenePromptLoading' = FALSE
    /\ isAiModelPromptLoading' = initialAiModelPromptLoading
    /\ backgroundColor' = DefaultColor
    /\ scenePrompt' = ""
    /\ aiGeneratedPrompt' = ""
    /\ yourModelPrompt' = ""
    /\ modelSource' = "ai"
    /\ sessionGenerations' = <<>>
    /\ activeGenerationId' = NoGeneration
    /\ newHistoryNotification' = FALSE
    /\ UNCHANGED <<geminiCall, generationIdCounter, effectState, inflight>>

\* mutant: every deletion clears the selection
handleDeleteFromHistoryDeselects(idToDelete) ==
    /\ Idle
    /\ sessionGenerations' = FilterOut(sessionGenerations, idToDelete)
    /\ activeGenerationId' = NoGeneration
    /\ UNCHANGED <<geminiCall, controls, prompts, panels, assets, generationStacks,
                   generationIdCounter, statuses, promptFlags, effectState, inflight>>

handleDeleteFromHistory(idToDelete) ==
    /\ Idle
    /\ sessionGenerations' = FilterOut(sessionGenerations, idToDelete)
    /\ activeGenerationId' =
         IF activeGenerationId = idToDelete THEN NoGeneration ELSE activeGenerationId
    /\ UNCHANGED <<geminiCall, controls, prompts, panels, assets, generationStacks,
                   generationIdCounter, statuses, promptFlags, effectState, inflight>>

\* productImg.onload / modelImg.onload: the asset is replaced once the
\* snapshot's URL has decoded; no onerror handler is installed
RestoreAsset(current, url, decodes) ==
    IF decodes
    THEN [url |-> url, originalWidth |-> NaturalSize, originalHeight |-> NaturalSize]
    ELSE current

handleSelectGeneration(id) ==
    /\ Idle
    /\ LET found == FindGeneration(sessionGenerations, id)
       IN IF found = {}
          THEN UNCHANGED vars
          ELSE LET snapshot == (CHOOSE g \in found : TRUE).snapshot
               IN /\ mode' = snapshot.mode
                  /\ backgroundSubMode' = snapshot.backgroundSubMode
                  /\ modelSource' = snapshot.modelSource
                  /\ backgroundColor' = snapshot.backgroundColor
                  /\ scenePrompt' = snapshot.scenePrompt
                  /\ aiGeneratedPrompt' = snapshot.aiGeneratedPrompt
                  /\ yourModelPrompt' = snapshot.yourModelPrompt
                  /\ \E decodes \in BOOLEAN :
                       productImage' =
                         IF snapshot.productImageUrl # Null
                         THEN RestoreAsset(productImage, snapshot.productImageUrl, decodes)
                         ELSE initialProductImage
                  /\ \E decodes \in BOOLEAN :
                       modelImage' =
                         IF snapshot.modelImageUrl # Null
                         THEN RestoreAsset(modelImage, snapshot.modelImageUrl, decodes)
                         ELSE initialModelImage
                  /\ activeTab' = "settings"
                  /\ activeGenerationId' = id
                  /\ \E isMobile \in BOOLEAN :
                       isMobileHistoryOpen' =
                         IF isMobile THEN FALSE ELSE isMobileHistoryOpen
                  /\ UNCHANGED <<geminiCall, newHistoryNotification, generationStacks,
                                 sessionGenerations, generationIdCounter, statuses,
                                 promptFlags, effectState, inflight>>

\* ---------------------------------------------------------------- uploads
\* mutant: a new model image resets the history like a new product image
handleFileUploadResetsAlways(url, imageType) ==
    /\ Idle
    /\ IF mode = "background"
       THEN LET effectiveSubMode == EffectiveSubMode(backgroundSubMode, backgroundColor)
            IN backgroundStatuses' =
                 [backgroundStatuses EXCEPT ![effectiveSubMode] = [@ EXCEPT !.error = Null]]
       ELSE UNCHANGED backgroundStatuses
    /\ IF mode = "ai-model"
       THEN aiModelStatuses' =
              [aiModelStatuses EXCEPT ![modelSource] = [@ EXCEPT !.error = Null]]
       ELSE UNCHANGED aiModelStatuses
    /\ LET imageData == [url |-> url, originalWidth |-> NaturalSize,
                         originalHeight |-> NaturalSize]
       IN /\ IF imageType = "product"
             THEN productImage' = imageData /\ UNCHANGED modelImage
             ELSE modelImage' = imageData /\ UNCHANGED productImage
          /\ sessionGenerations' = <<>>
          /\ activeGenerationId' = NoGeneration
          /\ generationStacks' = initialGenerationStacks
    /\ UNCHANGED <<geminiCall, controls, prompts, panels, generationIdCounter, promptFlags,
                   effectState, inflight>>

\* mutant: a new product image keeps the session log
handleFileUploadKeepsLog(url, imageType) ==
    /\ Idle
    /\ IF mode = "background"
       THEN LET effectiveSubMode == EffectiveSubMode(backgroundSubMode, backgroundColor)
            IN backgroundStatuses' =
                 [backgroundStatuses EXCEPT ![effectiveSubMode] = [@ EXCEPT !.error = Null]]
       ELSE UNCHANGED backgroundStatuses
    /\ IF mode = "ai-model"
       THEN aiModelStatuses' =
              [aiModelStatuses EXCEPT ![modelSource] = [@ EXCEPT !.error = Null]]
       ELSE UNCHANGED aiModelStatuses
    /\ LET imageData == [url |-> url, originalWidth |-> NaturalSize,
                         originalHeight |-> NaturalSize]
       IN IF imageType = "product"
          THEN /\ productImage' = imageData
               /\ activeGenerationId' = NoGeneration
               /\ generationStacks' = initialGenerationStacks
               /\ UNCHANGED <<modelImage, sessionGenerations>>
          ELSE /\ modelImage' = imageData
               /\ UNCHANGED <<productImage, sessionGenerations, activeGenerationId,
                              generationStacks>>
    /\ UNCHANGED <<geminiCall, controls, prompts, panels, generationIdCounter, promptFlags,
                   effectState, inflight>>

\* img.onload of handleFileUpload; a file that cannot be read or decoded
\* reaches neither callback and changes nothing
handleFileUpload(url, imageType) ==
    /\ Idle
    /\ IF mode = "background"
       THEN LET effectiveSubMode == EffectiveSubMode(backgroundSubMode, backgroundColor)
            IN backgroundStatuses' =
                 [backgroundStatuses EXCEPT ![effectiveSubMode] = [@ EXCEPT !.error = Null]]
       ELSE UNCHANGED backgroundStatuses
    /\ IF mode = "ai-model"
       THEN aiModelStatuses' =
              [aiModelStatuses EXCEPT ![modelSource] = [@ EXCEPT !.error = Null]]
       ELSE UNCHANGED aiModelStatuses
    /\ LET imageData == [url |-> url, originalWidth |-> NaturalSize,
                         originalHeight |-> NaturalSize]
       IN IF imageType = "product"
          THEN /\ productImage' = imageData
               /\ sessionGenerations' = <<>>
               /\ activeGenerationId' = NoGeneration
               /\ generationStacks' = initialGenerationStacks
               /\ UNCHANGED modelImage
          ELSE /\ modelImage' = imageData
               /\ UNCHANGED <<productImage, sessionGenerations, activeGenerationId,
                              generationStacks>>
    /\ UNCHANGED <<geminiCall, controls, prompts, panels, generationIdCounter, promptFlags,
                   effectState, inflight>>

\* ---------------------------------------------------------------- prompt suggestion
PromptJobsInFlight ==
    promptJobs["scene"] + promptJobs["ai"] + promptJobs["custom"]

\* the synchronous prefix of handlePromptGen, up to its first await; an early
\* return leaves through the finally block, which lowers the loading flag
handlePromptGen ==
    /\ Idle
    /\ IF mode = "background"
       THEN IF productImage.url = Null \/ isScenePromptLoading
            THEN /\ isScenePromptLoading' = FALSE
                 /\ UNCHANGED <<backgroundStatuses, promptJobs>>
            ELSE /\ PromptJobsInFlight < MaxPromptJobs
                 /\ isScenePromptLoading' = TRUE
                 /\ backgroundStatuses' =
                      [backgroundStatuses EXCEPT !["scene"] = [@ EXCEPT !.error = Null]]
                 /\ promptJobs' = [promptJobs EXCEPT !["scene"] = @ + 1]
       ELSE UNCHANGED <<isScenePromptLoading, backgroundStatuses>>
    /\ IF mode = "ai-model"
       THEN IF \/ isAiModelPromptLoading[modelSource]
               \/ modelSource = "ai" /\ productImage.url = Null
               \/ modelSource = "custom"
                  /\ (productImage.url = Null \/ modelImage.url = Null)
            THEN /\ isAiModelPromptLoading' =
                      [isAiModelPromptLoading EXCEPT ![modelSource] = FALSE]
                 /\ UNCHANGED <<aiModelStatuses, promptJobs>>
            ELSE /\ PromptJobsInFlight < MaxPromptJobs
                 /\ isAiModelPromptLoading' =
                      [isAiModelPromptLoading EXCEPT ![modelSource] = TRUE]
                 /\ aiModelStatuses' =
                      [aiModelStatuses EXCEPT ![modelSource] = [@ EXCEPT !.error = Null]]
                 /\ promptJobs' = [promptJobs EXCEPT ![modelSource] = @ + 1]
       ELSE UNCHANGED <<isAiModelPromptLoading, aiModelStatuses>>
    /\ UNCHANGED <<geminiCall, controls, prompts, panels, assets, history, effectState, jobs>>

\* generatePromptSuggestion resolved: the rest of the try block, then finally
PromptGenSucceeded(kind, suggestion) ==
    /\ Idle
    /\ promptJobs[kind] > 0
    /\ promptJobs' = [promptJobs EXCEPT ![kind] = @ - 1]
    /\ CASE kind = "scene" ->
              /\ scenePrompt' = suggestion
              /\ isScenePromptLoading' = FALSE
              /\ UNCHANGED <<aiGeneratedPrompt, yourModelPrompt, isAiModelPromptLoading>>
         [] kind = "ai" ->
              /\ aiGeneratedPrompt' = suggestion
              /\ isAiModelPromptLoading' = [isAiModelPromptLoading EXCEPT !["ai"] = FALSE]
              /\ UNCHANGED <<scenePrompt, yourModelPrompt, isScenePromptLoading>>
         [] kind = "custom" ->
              /\ yourModelPrompt' = suggestion
              /\ isAiModelPromptLoading' =
                   [isAiModelPromptLoading EXCEPT !["custom"] = FALSE]
              /\ UNCHANGED <<scenePrompt, aiGeneratedPrompt, isScenePromptLoading>>
    /\ UNCHANGED <<geminiCall, controls, panels, assets, history, statuses, effectState, jobs>>

\* prepareImage or generatePromptSuggestion rejected: catch, then finally
PromptGenFailed(kind, errorMsg) ==
    /\ Idle
    /\ promptJobs[kind] > 0
    /\ promptJobs' = [promptJobs EXCEPT ![kind] = @ - 1]
    /\ IF kind = "scene"
       THEN /\ backgroundStatuses' =
                 [backgroundStatuses EXCEPT
                    !["scene"] = [isLoading |-> NotLoading, error |-> errorMsg]]
            /\ isScenePromptLoading' = FALSE
            /\ UNCHANGED <<aiModelStatuses, isAiModelPromptLoading>>
       ELSE /\ aiModelStatuses' =
                 [aiModelStatuses EXCEPT
                    ![kind] = [isLoading |-> NotLoading, error |-> errorMsg]]
            /\ isAiModelPromptLoading' = [isAiModelPromptLoading EXCEPT ![kind] = FALSE]
            /\ UNCHANGED <<backgroundStatuses, isScenePromptLoading>>
    /\ UNCHANGED <<geminiCall, controls, prompts, panels, assets, history, effectState, jobs>>

\* ---------------------------------------------------------------- generation
\* A job is one invocation of handleBackgroundGenerate or handleAiModelGenerate
\* that is suspended at an await.  Awaits with no state update between them
\* are one suspension point.
NewRecord(newId, featureKey) ==
    [id |-> newId, src |-> Null, status |-> "loading",
     featureKey |-> featureKey, snapshot |-> Snapshot]

NewJob(newId, featureKey, kind, slot, pc) ==
    [id |-> newId, featureKey |-> featureKey, kind |-> kind, slot |-> slot,
     pc |-> pc, blend |-> (slot = "custom" /\ modelImage.url # Null),
     activeTab |-> activeTab, isMobileHistoryOpen |-> isMobileHistoryOpen]

\* mutant: the request is accepted although the feature is busy
handleBackgroundGenerateWhileBusy ==
    LET effectiveSubMode == EffectiveSubMode(backgroundSubMode, backgroundColor)
        featureKey == "background-" \o effectiveSubMode
        newId == generationIdCounter
    IN IF productImage.url = Null
       THEN UNCHANGED vars
       ELSE /\ generationIdCounter < MaxGenerations
            /\ generationIdCounter' = generationIdCounter + 1
            /\ sessionGenerations' = <<NewRecord(newId, featureKey)>> \o sessionGenerations
            /\ activeGenerationId' = newId
            /\ backgroundStatuses' =
                 [backgroundStatuses EXCEPT
                    ![effectiveSubMode] = [isLoading |-> Generating, error |-> Null]]
            /\ jobs' = jobs \cup
                 {NewJob(newId, featureKey, "background", effectiveSubMode, "generate")}
            /\ UNCHANGED <<geminiCall, controls, prompts, panels, assets, generationStacks,
                           aiModelStatuses, promptFlags, effectState, promptJobs>>

handleBackgroundGenerate ==
    LET effectiveSubMode == EffectiveSubMode(backgroundSubMode, backgroundColor)
        featureKey == "background-" \o effectiveSubMode
        newId == generationIdCounter
    IN IF productImage.url = Null
       THEN UNCHANGED vars
       ELSE IF backgroundStatuses[effectiveSubMode].isLoading # NotLoading
       THEN UNCHANGED vars
       ELSE /\ generationIdCounter < MaxGenerations
            /\ generationIdCounter' = generationIdCounter + 1
            /\ sessionGenerations' = <<NewRecord(newId, featureKey)>> \o sessionGenerations
            /\ activeGenerationId' = newId
            /\ backgroundStatuses' =
                 [backgroundStatuses EXCEPT
                    ![effectiveSubMode] = [isLoading |-> Generating, error |-> Null]]
            /\ jobs' = jobs \cup
                 {NewJob(newId, featureKey, "background", effectiveSubMode, "generate")}
            /\ UNCHANGED <<geminiCall, controls, prompts, panels, assets, generationStacks,
                           aiModelStatuses, promptFlags, effectState, promptJobs>>

\* With a product image the handler suspends in prepareImage before the
\* blending step (pc = "prepare"); without one it reaches that step at once.
handleAiModelGenerate ==
    LET invokedModelSource == modelSource
        featureKey == "ai-model-" \o invokedModelSource
        newId == generationIdCounter
        blend == invokedModelSource = "custom" /\ modelImage.url # Null
    IN IF aiModelStatuses[invokedModelSource].isLoading # NotLoading
       THEN UNCHANGED vars
       ELSE /\ generationIdCounter < MaxGenerations
            /\ generationIdCounter' = generationIdCounter + 1
            /\ sessionGenerations' = <<NewRecord(newId, featureKey)>> \o sessionGenerations
            /\ activeGenerationId' = newId
            /\ aiModelStatuses' =
                 [aiModelStatuses EXCEPT
                    ![invokedModelSource] =
                       [isLoading |-> IF productImage.url = Null /\ blend
                                      THEN Blending ELSE Generating,
                        error |-> Null]]
            /\ jobs' = jobs \cup
                 {NewJob(newId, featureKey, "ai-model", invokedModelSource,
                         IF productImage.url # Null /\ blend
                         THEN "prepare" ELSE "generate")}
            /\ UNCHANGED <<geminiCall, controls, prompts, panels, assets, generationStacks,
                           backgroundStatuses, promptFlags, effectState, promptJobs>>

handleGenerateClick ==
    /\ Idle
    /\ IF mode = "background" THEN handleBackgroundGenerate ELSE handleAiModelGenerate

\* the Generate button of either layout: disabled={!canGenerate}
GenerateButton ==
    /\ canGenerate
    /\ handleGenerateClick

\* prepareImage(product) resolved in a custom-model job that has a model image
AiModelJobBlending(j) ==
    /\ Idle
    /\ j \in jobs
    /\ j.pc = "prepare"
    /\ aiModelStatuses' =
         [aiModelStatuses EXCEPT ![j.slot] = [@ EXCEPT !.isLoading = Blending]]
    /\ jobs' = (jobs \ {j}) \cup {[j EXCEPT !.pc = "generate"]}
    /\ UNCHANGED <<geminiCall, controls, prompts, panels, assets, history, backgroundStatuses,
                   promptFlags, effectState, promptJobs>>

\* mutant: the finally block leaves the phase as it is
ClearLoadingSkipped(status) == status

\* the finally block: {...prev[slot], isLoading: ''}
ClearLoading(status) == [status EXCEPT !.isLoading = NotLoading]

\* the last await resolved: recordNewGeneration, then finally
JobSucceeded(j, imageUrl) ==
    /\ Idle
    /\ j \in jobs
    /\ j.pc = "generate"
    /\ jobs' = jobs \ {j}
    /\ recordNewGeneration(imageUrl, j.id, j.featureKey, j.activeTab,
                           j.isMobileHistoryOpen)
    /\ IF j.kind = "background"
       THEN /\ backgroundStatuses' =
                 [backgroundStatuses EXCEPT ![j.slot] = ClearLoading(@)]
            /\ UNCHANGED aiModelStatuses
       ELSE /\ aiModelStatuses' =
                 [aiModelStatuses EXCEPT ![j.slot] = ClearLoading(@)]
            /\ UNCHANGED backgroundStatuses
    /\ UNCHANGED <<geminiCall, controls, prompts, activeTab, isMobileHistoryOpen, assets,
                   generationIdCounter, promptFlags, effectState, promptJobs>>

\* an await rejected: catch, then finally
JobFailed(j, errorMsg) ==
    /\ Idle
    /\ j \in jobs
    /\ jobs' = jobs \ {j}
    /\ IF j.kind = "background"
       THEN /\ backgroundStatuses' =
                 [backgroundStatuses EXCEPT
                    ![j.slot] = ClearLoading([isLoading |-> NotLoading,
                                              error |-> errorMsg])]
            /\ UNCHANGED aiModelStatuses
       ELSE /\ aiModelStatuses' =
                 [aiModelStatuses EXCEPT
                    ![j.slot] = ClearLoading([isLoading |-> NotLoading,
                                              error |-> errorMsg])]
            /\ UNCHANGED backgroundStatuses
    /\ sessionGenerations' = FilterOut(sessionGenerations, j.id)
    /\ UNCHANGED <<geminiCall, controls, prompts, panels, assets, generationStacks,
                   activeGenerationId, generationIdCounter, promptFlags, effectState, promptJobs>>

\* ---------------------------------------------------------------- specification
IssuedIds == 0..(generationIdCounter - 1)

ControlEvent ==
    \/ \E m \in Modes : handleSetMode(m)
    \/ \E sm \in BackgroundSubModes : handleSetBackgroundSubMode(sm)
    \/ \E src \in ModelSources : handleSetModelSource(src)
    \/ \E c \in Colors : setBackgroundColor(c)

PromptEditEvent ==
    \/ \E p \in Prompts : setScenePrompt(p)
    \/ \E p \in Prompts : setModelPrompt(p)

TabEvent ==
    \/ setActiveTabSettings
    \/ openHistoryTab

DrawerEvent ==
    \/ openMobileHistory
    \/ closeMobileHistory

PanelEvent ==
    \/ TabEvent
    \/ DrawerEvent

StackEvent ==
    \/ handleUndo
    \/ handleRedo

GenerationEvent ==
    \/ handleGenerateClick
    \/ \E j \in jobs : JobSucceeded(j, ResultImage(j.id))
    \/ \E j \in jobs, e \in ErrorMessages : JobFailed(j, e)

PromptGenEvent ==
    \/ handlePromptGen
    \/ \E k \in PromptKinds, sg \in Suggestions : PromptGenSucceeded(k, sg)
    \/ \E k \in PromptKinds, e \in ErrorMessages : PromptGenFailed(k, e)

\* the session around one product image: feature switches, generations on
\* every feature, undo/redo, deletion from the log, restoring a record,
\* product replacement and Start Over
Next ==
    \/ FlushEffects
    \/ ControlEvent
    \/ StackEvent
    \/ GenerationEvent
    \/ handleStartOver
    \/ \E id \in IssuedIds : handleDeleteFromHistory(id)
    \/ \E id \in IssuedIds : handleSelectGeneration(id)
    \/ \E url \in ProductUrls : handleFileUpload(url, "product")

Spec == Init /\ [][Next]_vars

\* the session with the desktop tabs: the settings and history tabs, feature
\* switches, product upload and generations on every feature
TabNext ==
    \/ FlushEffects
    \/ ControlEvent
    \/ TabEvent
    \/ GenerationEvent
    \/ \E url \in ProductUrls : handleFileUpload(url, "product")

TabSpec == Init /\ [][TabNext]_vars

\* the session with prompt suggestions: mode and sub-mode switches, product
\* upload, generations and prompt-suggestion requests with their completions
PromptNext ==
    \/ FlushEffects
    \/ \E m \in Modes : handleSetMode(m)
    \/ \E sm \in BackgroundSubModes : handleSetBackgroundSubMode(sm)
    \/ GenerationEvent
    \/ PromptGenEvent
    \/ \E url \in ProductUrls : handleFileUpload(url, "product")

PromptSpec == Init /\ [][PromptNext]_vars

\* the session with both source images: mode and model-source switches,
\* product and model upload, generations with the blending phase, undo/redo
\* and restoring a record
AssetNext ==
    \/ FlushEffects
    \/ \E m \in Modes : handleSetMode(m)
    \/ \E src \in ModelSources : handleSetModelSource(src)
    \/ StackEvent
    \/ GenerationEvent
    \/ \E j \in jobs : AiModelJobBlending(j)
    \/ \E id \in IssuedIds : handleSelectGeneration(id)
    \/ \E url \in ProductUrls : handleFileUpload(url, "product")
    \/ \E url \in ModelUrls : handleFileUpload(url, "model")

AssetSpec == Init /\ [][AssetNext]_vars

\* the session as the Generate button admits it: mode and model-source
\* switches, the model prompt, both uploads, Start Over, and generations
\* requested through the button, with the blending phase
ButtonNext ==
    \/ FlushEffects
    \/ \E m \in Modes : handleSetMode(m)
    \/ \E src \in ModelSources : handleSetModelSource(src)
    \/ \E p \in Prompts : setModelPrompt(p)
    \/ GenerateButton
    \/ \E j \in jobs : JobSucceeded(j, ResultImage(j.id))
    \/ \E j \in jobs, e \in ErrorMessages : JobFailed(j, e)
    \/ \E j \in jobs : AiModelJobBlending(j)
    \/ handleStartOver
    \/ \E url \in ProductUrls : handleFileUpload(url, "product")
    \/ \E url \in ModelUrls : handleFileUpload(url, "model")

ButtonSpec == Init /\ [][ButtonNext]_vars

\* the awaits of the job with this id settle: prepareImage, the generation
\* call and cropImage resolve or reject
Answers(id) ==
    \E j \in jobs :
       /\ j.id = id
       /\ \/ AiModelJobBlending(j)
          \/ JobSucceeded(j, ResultImage(j.id))
          \/ \E e \in ErrorMessages : JobFailed(j, e)

\* the session around the jobs in flight: mode and model-source switches,
\* both uploads, deletion from the log, Start Over, and generations with the
\* blending phase
JobNext ==
    \/ FlushEffects
    \/ \E m \in Modes : handleSetMode(m)
    \/ \E src \in ModelSources : handleSetModelSource(src)
    \/ handleGenerateClick
    \/ \E j \in jobs : JobSucceeded(j, ResultImage(j.id))
    \/ \E j \in jobs, e \in ErrorMessages : JobFailed(j, e)
    \/ \E j \in jobs : AiModelJobBlending(j)
    \/ handleStartOver
    \/ \E id \in IssuedIds : handleDeleteFromHistory(id)
    \/ \E url \in ProductUrls : handleFileUpload(url, "product")
    \/ \E url \in ModelUrls : handleFileUpload(url, "model")

\* the scheduling of the event loop: pending effects run after the render,
\* and the continuation of a settled await is run however the user's events
\* fall between
FairJobSpec ==
    /\ Init /\ [][JobNext]_vars
    /\ WF_vars(FlushEffects)
    /\ \A id \in 0..(MaxGenerations - 1) : SF_vars(Answers(id))

\* the session that restores records after the model image was replaced:
\* mode and model-source switches, product upload, upload of one model image
\* and of another, generations, and restoring a record
RestoreNext ==
    \/ FlushEffects
    \/ \E m \in Modes : handleSetMode(m)
    \/ \E src \in ModelSources : handleSetModelSource(src)
    \/ GenerationEvent
    \/ \E id \in IssuedIds : handleSelectGeneration(id)
    \/ \E url \in ProductUrls : handleFileUpload(url, "product")
    \/ \E url \in ModelUrls \cup OtherModelUrls : handleFileUpload(url, "model")

RestoreSpec == Init /\ [][RestoreNext]_vars

\* the session in the AI Model mode with prompt suggestions: model-source
\* switches, both uploads, suggestion requests with their completions, and
\* generations requested through the button, with the blending phase
BlendNext ==
    \/ FlushEffects
    \/ handleSetMode("ai-model")
    \/ \E src \in ModelSources : handleSetModelSource(src)
    \/ GenerateButton
    \/ \E j \in jobs : JobSucceeded(j, ResultImage(j.id))
    \/ \E j \in jobs : AiModelJobBlending(j)
    \/ PromptGenEvent
    \/ \E url \in ProductUrls : handleFileUpload(url, "product")
    \/ \E url \in ModelUrls : handleFileUpload(url, "model")

BlendSpec == Init /\ [][BlendNext]_vars

\* one call of callGeminiWithRetry: every request is answered and every retry
\* timer fires
generateContentSettled ==
    \/ generateContentResolved
    \/ \E errorMessage \in ApiErrorMessages : generateContentRejected(errorMessage)

RetryNext ==
    \/ callGeminiWithRetry
    \/ generateContentSettled
    \/ retryTimerFired

RetrySpec ==
    /\ Init
    /\ [][RetryNext]_vars
    /\ WF_vars(callGeminiWithRetry)
    /\ WF_vars(generateContentSettled)
    /\ WF_vars(retryTimerFired)

\* ---------------------------------------------------------------- properties
JobsOf(k) == {j \in jobs : j.featureKey = k}

RecordsOf(id) == FindGeneration(sessionGenerations, id)

\* the job j resumes after its last await and records its result
Succeeds(j) == JobSucceeded(j, ResultImage(j.id))

\* the handler accepted the request: a generation id was consumed
Submits == handleGenerateClick /\ generationIdCounter' # generationIdCounter

\* C1: for each feature key at most one generation job is in flight.
C1_OneJobPerFeature ==
    \A k \in FeatureKeys : Cardinality(JobsOf(k)) <= 1

\* C2: a job of feature K that succeeds while another feature is active leaves
\* the canvas image as it was, appends its image to the stack of K and turns
\* its log record into a done record with that image.  Stated for the jobs
\* whose record is still in the log when the result arrives.
C2_BackgroundCompletion ==
    [][\A j \in jobs :
         (Succeeds(j) /\ j.featureKey # getCurrentFeatureKey /\ RecordsOf(j.id) # {})
         => /\ canvasDisplayUrl' = canvasDisplayUrl
            /\ generationStacks'[j.featureKey].images =
                 SubSeq(generationStacks[j.featureKey].images, 1,
                        generationStacks[j.featureKey].currentIndex + 1)
                 \o <<ResultImage(j.id)>>
            /\ \E g \in FindGeneration(sessionGenerations', j.id) :
                 g.status = "done" /\ g.src = ResultImage(j.id)]_vars

\* C3: submission, completion or failure of a job of feature K2 leaves the
\* status slot and the stack of every other feature K1 unchanged, and a
\* success adds exactly one image to the stack of K2.
C3_FeaturesIndependent ==
    [][/\ \A j \in jobs :
            (Succeeds(j) \/ \E e \in ErrorMessages : JobFailed(j, e))
            => \A k1 \in FeatureKeys \ {j.featureKey} :
                  /\ StatusOf(k1)' = StatusOf(k1)
                  /\ generationStacks'[k1] = generationStacks[k1]
       /\ \A j \in jobs :
            Succeeds(j)
            => LET old == generationStacks[j.featureKey]
                   new == generationStacks'[j.featureKey]
               IN /\ Len(new.images) = old.currentIndex + 2
                  /\ new.images[Len(new.images)] = ResultImage(j.id)
                  /\ \A i \in 1..(old.currentIndex + 1) : new.images[i] = old.images[i]
       /\ Submits
            => /\ \A k1 \in FeatureKeys \ {getCurrentFeatureKey} :
                    StatusOf(k1)' = StatusOf(k1)
               /\ generationStacks' = generationStacks]_vars

\* a job is still generating while a job submitted after it, on another
\* feature, has already put its single image on its own stack
C3_Witness ==
    \E j \in jobs :
       \E i \in 1..Len(sessionGenerations) :
          LET g == sessionGenerations[i]
          IN /\ g.status = "done"
             /\ g.id > j.id
             /\ g.featureKey # j.featureKey
             /\ generationStacks[g.featureKey].images = <<g.src>>
             /\ generationStacks[j.featureKey].images = <<>>
             /\ StatusOf(j.featureKey).isLoading = Generating
             /\ StatusOf(g.featureKey).isLoading = NotLoading

\* the resolution order of the canvas image: a selected record that exists
\* and is done, else the active feature's stack at its cursor, else nothing
ResolvedCanvasImage ==
    LET selected == {g \in RecordsOf(activeGenerationId) : g.status = "done"}
        stack == generationStacks[getCurrentFeatureKey]
    IN IF activeGenerationId # NoGeneration /\ selected # {}
       THEN (CHOOSE g \in selected : TRUE).src
       ELSE IF stack.currentIndex >= 0
            THEN stack.images[stack.currentIndex + 1]
            ELSE Null

\* C4: the canvas image is the image of the selected record if that record
\* exists and is done, else the image at the cursor of the active feature's
\* stack, else none.
C4_CanvasResolution == canvasDisplayUrl = ResolvedCanvasImage

\* C5: every stack satisfies -1 <= currentIndex < images.length.
C5_CursorInRange ==
    \A k \in FeatureKeys :
       /\ -1 <= generationStacks[k].currentIndex
       /\ generationStacks[k].currentIndex < Len(generationStacks[k].images)

\* two images were pushed on one stack and both were undone
C5_Witness ==
    \E k \in FeatureKeys :
       /\ Len(generationStacks[k].images) = 2
       /\ generationStacks[k].currentIndex = -1

\* C6: a successful generation of feature K replaces the stack of K by its
\* images up to the cursor followed by the new image, with the cursor on the
\* last position.
C6_PushTruncates ==
    [][\A j \in jobs :
         Succeeds(j)
         => LET old == generationStacks[j.featureKey]
                new == generationStacks'[j.featureKey]
            IN /\ new.images = SubSeq(old.images, 1, old.currentIndex + 1)
                                 \o <<ResultImage(j.id)>>
               /\ new.currentIndex = Len(new.images) - 1]_vars

\* both generations of one feature are done records of the log, yet the
\* stack holds only the second image: the first was undone and overwritten
C6_Witness ==
    \E k \in FeatureKeys :
       /\ generationStacks[k] = [images |-> <<ResultImage(1)>>, currentIndex |-> 0]
       /\ \A id \in {0, 1} :
             \E g \in RecordsOf(id) : g.status = "done" /\ g.featureKey = k

\* C7: undo lowers the cursor of the active feature by one, or leaves it at
\* -1; redo raises it by one, or leaves it at the top; neither changes the
\* images of any stack nor the cursor of another feature.
C7_UndoRedo ==
    [][LET k == getCurrentFeatureKey
           old == generationStacks[k]
           othersKept ==
             /\ \A f \in FeatureKeys :
                   generationStacks'[f].images = generationStacks[f].images
             /\ \A f \in FeatureKeys \ {k} :
                   generationStacks'[f].currentIndex = generationStacks[f].currentIndex
       IN /\ handleUndo
               => /\ generationStacks'[k].currentIndex =
                       IF old.currentIndex >= 0
                       THEN old.currentIndex - 1 ELSE -1
                  /\ othersKept
          /\ handleRedo
               => /\ generationStacks'[k].currentIndex =
                       IF old.currentIndex < Len(old.images) - 1
                       THEN old.currentIndex + 1 ELSE Len(old.images) - 1
                  /\ othersKept]_vars

\* the cursor of a two-image stack stands on the first image
C7_Witness ==
    \E k \in FeatureKeys :
       /\ Len(generationStacks[k].images) = 2
       /\ generationStacks[k].currentIndex = 0

\* C8: canUndo holds exactly when undo moves the cursor of the active
\* feature (its currentIndex is >= 0), canRedo exactly when redo moves it
\* (its currentIndex is below images.length - 1).
C8_CanUndoCanRedo ==
    [][/\ canUndo <=> generationStacks[getCurrentFeatureKey].currentIndex >= 0
       /\ canRedo <=> generationStacks[getCurrentFeatureKey].currentIndex
                        < Len(generationStacks[getCurrentFeatureKey].images) - 1
       /\ handleUndo => (canUndo <=> generationStacks' # generationStacks)
       /\ handleRedo => (canRedo <=> generationStacks' # generationStacks)]_vars

\* the active feature can be undone but not redone, with a selection that an
\* undo would clear
C8_Witness ==
    /\ canUndo
    /\ ~canRedo
    /\ activeGenerationId # NoGeneration
    /\ Idle

\* C9: a generate request for a feature whose loading phase is not none adds
\* no log record, consumes no generation id, changes no status slot, leaves
\* the selection alone and starts no job.
C9_BusyRequestRefused ==
    [][(handleGenerateClick /\ currentStatus.isLoading # NotLoading)
       => UNCHANGED <<sessionGenerations, generationIdCounter, backgroundStatuses,
                      aiModelStatuses, activeGenerationId, jobs>>]_vars

\* the active feature is busy although an id is still available and, in
\* background mode, a product image is present
C9_Witness ==
    /\ Idle
    /\ currentStatus.isLoading # NotLoading
    /\ generationIdCounter < MaxGenerations
    /\ productImage.url # Null

\* C10: when a job of feature K fails with message m, the status of K becomes
\* {none, m}, every stack keeps its images and cursor, and the log has no
\* record with the job's id.
C10_FailureEffects ==
    [][\A j \in jobs : \A m \in ErrorMessages :
         JobFailed(j, m)
         => /\ StatusOf(j.featureKey)' = [isLoading |-> NotLoading, error |-> m]
            /\ generationStacks' = generationStacks
            /\ FindGeneration(sessionGenerations', j.id) = {}]_vars

\* a feature shows an error, has no job in flight, and its stack still holds
\* the one image of the generation that succeeded before
C10_Witness ==
    \E k \in FeatureKeys :
       /\ StatusOf(k).error \in ErrorMessages
       /\ StatusOf(k).isLoading = NotLoading
       /\ JobsOf(k) = {}
       /\ generationStacks[k] = [images |-> <<ResultImage(0)>>, currentIndex |-> 0]
       /\ generationIdCounter = 2
       /\ RecordsOf(1) = {}
       /\ RecordsOf(0) # {}

\* C11 (as claimed): when a job fails the log gets shorter by exactly one
\* record and holds no record with the job's id, whatever happened to the log
\* since the submission.
C11_FailureShortensLog ==
    [][\A j \in jobs : \A m \in ErrorMessages :
         JobFailed(j, m)
         => /\ Len(sessionGenerations') = Len(sessionGenerations) - 1
            /\ FindGeneration(sessionGenerations', j.id) = {}]_vars

\* C11 (amended): when a job fails the log holds no record with the job's id;
\* it gets shorter by exactly one record if the job's record was still in it
\* and keeps its length if the record had been removed before.
C11_FailureRemovesOwnRecord ==
    [][\A j \in jobs : \A m \in ErrorMessages :
         JobFailed(j, m)
         => /\ Len(sessionGenerations') =
                 Len(sessionGenerations) - (IF RecordsOf(j.id) # {} THEN 1 ELSE 0)
            /\ FindGeneration(sessionGenerations', j.id) = {}]_vars

\* the first job has failed and left only the loading record of the second
\* job, which is still in flight
C11_Witness ==
    /\ \E k \in FeatureKeys : StatusOf(k).error \in ErrorMessages
    /\ Len(sessionGenerations) = 1
    /\ sessionGenerations[1].id = 1
    /\ sessionGenerations[1].status = "loading"
    /\ \E j \in jobs : j.id = 1
    /\ \A j \in jobs : j.id # 0

\* C12: after a job of feature K succeeds with image i the status of K is
\* {none, no error}, the stack of K has i at its cursor, which is its last
\* position, and the job's record is done with image i.  Stated for the jobs
\* whose record is still in the log when the result arrives.
C12_SuccessEffects ==
    [][\A j \in jobs :
         (Succeeds(j) /\ RecordsOf(j.id) # {})
         => LET stack == generationStacks'[j.featureKey]
            IN /\ StatusOf(j.featureKey)' = [isLoading |-> NotLoading, error |-> Null]
               /\ stack.currentIndex = Len(stack.images) - 1
               /\ stack.images[Len(stack.images)] = ResultImage(j.id)
               /\ \E g \in FindGeneration(sessionGenerations', j.id) :
                    g.status = "done" /\ g.src = ResultImage(j.id)]_vars

\* C13: when a job of feature K succeeds, the selection becomes the job's id
\* if K is the feature key the controls resolve to at that moment, and is left
\* as it was otherwise.
C13_SelectionOnCompletion ==
    [][\A j \in jobs :
         Succeeds(j)
         => activeGenerationId' =
              IF j.featureKey = getCurrentFeatureKey
              THEN j.id ELSE activeGenerationId]_vars

\* the second job has finished on a feature that is not active any more,
\* while the selection still is the first record, which belongs to the
\* active feature
C13_Witness ==
    /\ Idle
    /\ activeGenerationId = 0
    /\ \E g \in RecordsOf(0) : g.featureKey = getCurrentFeatureKey
    /\ \E g \in RecordsOf(1) :
          /\ g.status = "done"
          /\ g.featureKey # getCurrentFeatureKey
          /\ generationStacks[g.featureKey].images = <<g.src>>

\* C14: a success that arrives when the job's record is no longer in the log
\* changes no generation stack, not the log and not the selection.
C14_LateCompletionIgnored ==
    [][\A j \in jobs :
         (Succeeds(j) /\ RecordsOf(j.id) = {})
         => UNCHANGED <<generationStacks, sessionGenerations, activeGenerationId>>]_vars

\* a stack with no image and the cursor before the first position
EmptyStack == [images |-> <<>>, currentIndex |-> -1]

\* C15: the step that replaces the product image leaves every generation
\* stack at {[], -1}, the log empty and the selection none, whatever the state
\* before it, jobs in flight included.
C15_ProductReplacementResets ==
    [][\A url \in ProductUrls :
         handleFileUpload(url, "product")
         => /\ \A k \in FeatureKeys : generationStacks'[k] = EmptyStack
            /\ sessionGenerations' = <<>>
            /\ activeGenerationId' = NoGeneration]_vars

\* a product image is present, history and selection are empty, and the job
\* submitted last is still in flight on a busy feature
C15_Witness ==
    /\ productImage.url \in ProductUrls
    /\ \A k \in FeatureKeys : generationStacks[k] = EmptyStack
    /\ sessionGenerations = <<>>
    /\ activeGenerationId = NoGeneration
    /\ generationIdCounter = 2
    /\ \E j \in jobs : j.id = 1 /\ j.kind = "background"
                        /\ StatusOf(j.featureKey).isLoading = Generating

\* C17: the Start Over step leaves every generation stack at {[], -1}, the
\* log empty, the selection none, every status slot at {none, no error}, both
\* source images absent and background-color as the active feature key.
C17_StartOverResets ==
    [][handleStartOver
       => /\ \A k \in FeatureKeys : generationStacks'[k] = EmptyStack
          /\ sessionGenerations' = <<>>
          /\ activeGenerationId' = NoGeneration
          /\ \A k \in FeatureKeys :
                StatusOf(k)' = [isLoading |-> NotLoading, error |-> Null]
          /\ productImage'.url = Null
          /\ modelImage'.url = Null
          /\ getCurrentFeatureKey' = "background-color"]_vars

\* everything is as at the start although a job is still in flight: only
\* Start Over lowers the phase of a feature whose job has not returned
C17_Witness ==
    /\ jobs # {}
    /\ \A k \in FeatureKeys : generationStacks[k] = EmptyStack
    /\ sessionGenerations = <<>>
    /\ activeGenerationId = NoGeneration
    /\ \A k \in FeatureKeys : StatusOf(k) = [isLoading |-> NotLoading, error |-> Null]
    /\ productImage.url = Null
    /\ modelImage.url = Null
    /\ getCurrentFeatureKey = "background-color"

\* C16 (as claimed): the step that replaces the model image changes the
\* model asset and nothing else.
C16_ModelReplacementChangesOnlyModel ==
    [][\A url \in ModelUrls :
         handleFileUpload(url, "model")
         => UNCHANGED <<controls, prompts, panels, productImage, history, statuses,
                        promptFlags, effectState, inflight>>]_vars

\* C16 (amended): the step that replaces the model image sets the model asset
\* and clears the error of the active feature's status slot; the generation
\* stacks, the log, the selection, the product image and everything else are
\* unchanged.
C16_ModelReplacementKeepsHistory ==
    [][\A url \in ModelUrls :
         handleFileUpload(url, "model")
         => /\ modelImage'.url = url
            /\ UNCHANGED <<generationStacks, sessionGenerations, activeGenerationId,
                           productImage>>
            /\ \A k \in FeatureKeys :
                  StatusOf(k)' = IF k = getCurrentFeatureKey
                                 THEN [StatusOf(k) EXCEPT !.error = Null]
                                 ELSE StatusOf(k)
            /\ UNCHANGED <<controls, prompts, panels, generationIdCounter,
                           promptFlags, effectState, inflight>>]_vars

\* a model image is present although the selected, finished record was
\* submitted without one, and its image still is on its feature's stack
C16_Witness ==
    /\ modelImage.url \in ModelUrls
    /\ productImage.url \in ProductUrls
    /\ \E g \in RecordsOf(activeGenerationId) :
          /\ g.status = "done"
          /\ g.snapshot.modelImageUrl = Null
          /\ generationStacks[g.featureKey].images = <<g.src>>

\* C18: selecting a done record makes the canvas image that record's image,
\* and the effects that run after the selection keep it so, whichever feature
\* was active before and wherever the cursor of the record's feature is.
C18_SelectShowsRecord ==
    [][/\ \A id \in IssuedIds : \A g \in RecordsOf(id) :
            (handleSelectGeneration(id) /\ g.status = "done")
            => /\ canvasDisplayUrl' = g.src
               /\ activeGenerationId' = id
               /\ ~DeselectNeeded'
       /\ (FlushEffects /\ ~DeselectNeeded)
            => canvasDisplayUrl' = canvasDisplayUrl]_vars

\* the canvas shows the selected first record although the cursor of the
\* record's feature is not on that image
C18_Witness ==
    /\ Idle
    /\ activeGenerationId = 0
    /\ \E g \in RecordsOf(0) :
          /\ g.status = "done"
          /\ g.featureKey = getCurrentFeatureKey
          /\ canvasDisplayUrl = g.src
          /\ \/ currentStack.currentIndex = -1
             \/ currentStack.images[currentStack.currentIndex + 1] # g.src

\* C19: selecting a record restores controls whose resolved feature key is
\* the featureKey stored in the record.
C19_RestoreTargetsSameFeature ==
    [][\A id \in IssuedIds : \A g \in RecordsOf(id) :
         handleSelectGeneration(id) => getCurrentFeatureKey' = g.featureKey]_vars

\* the selected first record is a transparent-background one and the controls
\* resolve to its key again, after a second generation on another feature
C19_Witness ==
    /\ Idle
    /\ activeGenerationId = 0
    /\ \E g \in RecordsOf(0) :
          /\ g.featureKey = "background-transparent"
          /\ g.featureKey = getCurrentFeatureKey
    /\ \E g \in RecordsOf(1) : g.featureKey # getCurrentFeatureKey

\* the derivation rule of the feature key, written out per case
DerivedFeatureKey(m, sm, color, src) ==
    CASE m = "background" /\ sm = "color" /\ color = "transparent"
           -> "background-transparent"
      [] m = "background" /\ ~(sm = "color" /\ color = "transparent")
           -> IF sm = "color" THEN "background-color" ELSE "background-scene"
      [] m = "ai-model"
           -> IF src = "ai" THEN "ai-model-ai" ELSE "ai-model-custom"

\* C20: the resolved feature key follows the derivation rule for every
\* combination of mode, sub-mode, colour and model source, and the record and
\* the job created by a submission carry the key resolved from the controls of
\* that moment.
C20_FeatureKeyDerivation ==
    [][/\ getCurrentFeatureKey =
            DerivedFeatureKey(mode, backgroundSubMode, backgroundColor, modelSource)
       /\ getCurrentFeatureKey' =
            DerivedFeatureKey(mode', backgroundSubMode', backgroundColor', modelSource')
       /\ Submits
            => /\ sessionGenerations'[1].id = generationIdCounter
               /\ sessionGenerations'[1].featureKey =
                    DerivedFeatureKey(mode, backgroundSubMode, backgroundColor,
                                      modelSource)
               /\ \A j \in jobs' \ jobs :
                    j.featureKey =
                      DerivedFeatureKey(mode, backgroundSubMode, backgroundColor,
                                        modelSource)]_vars

\* one job is in flight on the transparent background and one on the scene
\* background while the transparent colour is still chosen
C20_Witness ==
    /\ \E j \in jobs : j.featureKey = "background-transparent"
    /\ \E j \in jobs : j.featureKey = "background-scene"
    /\ backgroundColor = "transparent"
    /\ backgroundSubMode = "scene"
    /\ mode = "background"

\* C21: a change of mode, sub-mode, model source or colour changes no status
\* slot itself, and the effects that run after a change of the visible feature
\* set the error of the feature that is visible now to none and change nothing
\* else: every loading phase and the error of every other feature stay.
C21_SwitchClearsOnlyError ==
    [][/\ ControlEvent => UNCHANGED statuses
       /\ FlushEffects
            => \A k \in FeatureKeys :
                  /\ StatusOf(k)'.isLoading = StatusOf(k).isLoading
                  /\ StatusOf(k)'.error =
                       IF k = getCurrentFeatureKey /\ effectDeps # ErrorEffectDeps
                       THEN Null ELSE StatusOf(k).error]_vars

\* the job submitted last is generating on a feature that was left behind,
\* and the feature on which the first job failed, left behind as well, still
\* shows its error
C21_Witness ==
    /\ Idle
    /\ \E j \in jobs :
          /\ j.featureKey # getCurrentFeatureKey
          /\ StatusOf(j.featureKey).isLoading = Generating
          /\ \E k \in FeatureKeys \ {j.featureKey, getCurrentFeatureKey} :
                StatusOf(k).error \in ErrorMessages
    /\ StatusOf(getCurrentFeatureKey) = initialOpStatus

\* C22: the selection is none after a change of mode, sub-mode or model
\* source to a different value, after every undo and redo, those that do not
\* move the cursor included, and after Start Over; the effects that run next
\* do not bring a selection back.
C22_SelectionCleared ==
    [][/\ \A m \in Modes :
            (handleSetMode(m) /\ mode # m) => activeGenerationId' = NoGeneration
       /\ \A sm \in BackgroundSubModes :
            (handleSetBackgroundSubMode(sm) /\ backgroundSubMode # sm)
            => activeGenerationId' = NoGeneration
       /\ \A src \in ModelSources :
            (handleSetModelSource(src) /\ modelSource # src)
            => activeGenerationId' = NoGeneration
       /\ (handleUndo \/ handleRedo \/ handleStartOver)
            => activeGenerationId' = NoGeneration
       /\ (FlushEffects /\ activeGenerationId = NoGeneration)
            => activeGenerationId' = NoGeneration]_vars

\* the only image of the active feature was undone: its done record is
\* still in the log, nothing is selected and a redo is possible
C22_Witness ==
    /\ Idle
    /\ activeGenerationId = NoGeneration
    /\ currentStack.currentIndex = -1
    /\ Len(currentStack.images) = 1
    /\ \E i \in 1..Len(sessionGenerations) :
          /\ sessionGenerations[i].status = "done"
          /\ sessionGenerations[i].featureKey = getCurrentFeatureKey
          /\ sessionGenerations[i].src = currentStack.images[1]

\* C23: deleting a record of the log takes that one record out and keeps the
\* records before and after it as they are and in their order; every
\* generation stack keeps its images and cursor; the selection becomes none
\* if it was the deleted id and is left as it was otherwise.
C23_DeleteRemovesOneRecord ==
    [][\A id \in IssuedIds :
         (handleDeleteFromHistory(id) /\ RecordsOf(id) # {})
         => /\ \E p \in 1..Len(sessionGenerations) :
                 /\ sessionGenerations[p].id = id
                 /\ sessionGenerations' =
                      SubSeq(sessionGenerations, 1, p - 1)
                      \o SubSeq(sessionGenerations, p + 1, Len(sessionGenerations))
            /\ generationStacks' = generationStacks
            /\ activeGenerationId' =
                 IF activeGenerationId = id THEN NoGeneration ELSE activeGenerationId]_vars

\* the record of the first generation is gone while its image still is the
\* first of two on its feature's stack, and the second record, which stayed
\* in the log, is still selected
C23_Witness ==
    /\ Idle
    /\ RecordsOf(0) = {}
    /\ activeGenerationId = 1
    /\ \E g \in RecordsOf(1) :
          /\ g.status = "done"
          /\ generationStacks[g.featureKey] =
               [images |-> <<ResultImage(0), ResultImage(1)>>, currentIndex |-> 1]

\* every record and every job in flight carries an id that was given out, and
\* the ids of the log are pairwise different
IdsIssuedOnce ==
    /\ \A i \in 1..Len(sessionGenerations) :
          sessionGenerations[i].id \in IssuedIds
    /\ \A j \in jobs : j.id \in IssuedIds
    /\ \A i, j \in 1..Len(sessionGenerations) :
          i # j => sessionGenerations[i].id # sessionGenerations[j].id

\* C24: the id counter never decreases, Start Over, product replacement,
\* deletions and failures included; a submission gives the new record and job
\* the counter value and raises the counter by one, so that ids grow with the
\* order of submission and no id is given out twice; no two records of the
\* log share an id.
C24_IdsStrictlyIncreasing ==
    [][/\ generationIdCounter' >= generationIdCounter
       /\ Submits
            => /\ generationIdCounter' = generationIdCounter + 1
               /\ sessionGenerations'[1].id = generationIdCounter
               /\ \A i \in 2..Len(sessionGenerations') :
                     sessionGenerations'[i].id < generationIdCounter
               /\ \A j \in jobs' \ jobs : j.id = generationIdCounter
       /\ IdsIssuedOnce
       /\ IdsIssuedOnce']_vars

\* the second id was given out after the log had lost the record of the
\* first: the log holds the record of id 1 alone while the jobs of both ids
\* are still in flight
C24_Witness ==
    /\ generationIdCounter = 2
    /\ Len(sessionGenerations) = 1
    /\ sessionGenerations[1].id = 1
    /\ sessionGenerations[1].snapshot.productImageUrl \in ProductUrls
    /\ \E j \in jobs : j.id = 0
    /\ \E j \in jobs : j.id = 1

\* the ids of the log, head first
LogIds == [i \in 1..Len(sessionGenerations) |-> sessionGenerations[i].id]

\* the ids of the log decrease strictly from its head to its tail
NewestFirst ==
    \A i, j \in 1..Len(sessionGenerations) :
       i < j => sessionGenerations[i].id > sessionGenerations[j].id

\* C25: in every state the ids of the log decrease strictly from head to
\* tail; a completion keeps the sequence of ids, and a failure or a deletion
\* keeps the sequence of the ids that remain.
C25_LogNewestFirst ==
    [][/\ NewestFirst
       /\ NewestFirst'
       /\ \A j \in jobs : Succeeds(j) => LogIds' = LogIds
       /\ \A j \in jobs : \A m \in ErrorMessages :
            JobFailed(j, m) => LogIds' = SelectSeq(LogIds, LAMBDA id : id # j.id)
       /\ \A d \in IssuedIds :
            handleDeleteFromHistory(d)
            => LogIds' = SelectSeq(LogIds, LAMBDA id : id # d)]_vars

\* the done record of the first generation stands behind the loading record
\* of the generation submitted after it
C25_Witness ==
    /\ Len(sessionGenerations) = 2
    /\ sessionGenerations[1].id = 1
    /\ sessionGenerations[1].status = "loading"
    /\ sessionGenerations[2].id = 0
    /\ sessionGenerations[2].status = "done"
    /\ \E j \in jobs : j.id = 1

\* C26: a submission stores the control values and the feature key of that
\* moment in the new record, and no step changes the snapshot or the feature
\* key of a record that is in the log before and after it: control changes,
\* completions, selections, undo and redo and other jobs leave them alone.
C26_SnapshotImmutable ==
    [][/\ Submits
            => /\ sessionGenerations'[1].snapshot = Snapshot
               /\ sessionGenerations'[1].featureKey = getCurrentFeatureKey
       /\ \A id \in IssuedIds :
            \A g \in RecordsOf(id) :
               \A h \in FindGeneration(sessionGenerations', id) :
                  /\ h.snapshot = g.snapshot
                  /\ h.featureKey = g.featureKey]_vars

\* the record of the first generation is done and still holds the mode,
\* colour and feature key of its submission, all of which differ from the
\* controls of now
C26_Witness ==
    /\ Idle
    /\ \E g \in RecordsOf(0) :
          /\ g.status = "done"
          /\ g.snapshot.mode # mode
          /\ g.snapshot.backgroundColor # backgroundColor
          /\ g.snapshot.modelSource # modelSource
          /\ g.featureKey # getCurrentFeatureKey
          /\ g.featureKey =
               FeatureKeyOf(g.snapshot.mode, g.snapshot.backgroundSubMode,
                            g.snapshot.backgroundColor, g.snapshot.modelSource)

\* the sources a job of the visible feature needs
SourcePreconditions ==
    /\ productImage.url # Null
    /\ (mode = "ai-model" /\ modelSource = "ai") => aiGeneratedPrompt # ""
    /\ (mode = "ai-model" /\ modelSource = "custom")
         => (modelImage.url # Null /\ yourModelPrompt # "")

\* C27: a step that consumes a generation id, adds a log record or raises a
\* phase to Generating is taken only when the sources of the visible feature
\* are present: a product image for a background feature, a product image and
\* a prompt for ai-model-ai, and a product image, a model image and a prompt
\* for ai-model-custom.
C27_SubmissionNeedsSources ==
    [][(\/ Submits
        \/ Len(sessionGenerations') > Len(sessionGenerations)
        \/ \E k \in FeatureKeys :
              /\ StatusOf(k).isLoading # Generating
              /\ StatusOf(k)'.isLoading = Generating)
       => SourcePreconditions]_vars

\* a custom-model job submitted with both images and a prompt is in flight,
\* while the visible feature, ai-model-ai, is idle and lacks its prompt, so
\* that its button is disabled
C27_Witness ==
    /\ Idle
    /\ \E j \in jobs :
          /\ j.featureKey = "ai-model-custom"
          /\ \E g \in RecordsOf(j.id) :
                /\ g.snapshot.productImageUrl \in ProductUrls
                /\ g.snapshot.modelImageUrl \in ModelUrls
                /\ g.snapshot.yourModelPrompt # ""
    /\ getCurrentFeatureKey = "ai-model-ai"
    /\ currentStatus.isLoading = NotLoading
    /\ productImage.url \in ProductUrls
    /\ aiGeneratedPrompt = ""
    /\ ~canGenerate
    /\ generationIdCounter < MaxGenerations

\* the moves of a loading phase within one job: up to Generating, on to
\* Blending, and back to none from either
PhaseMoves ==
    {<<NotLoading, Generating>>, <<Generating, Blending>>,
     <<Generating, NotLoading>>, <<Blending, NotLoading>>}

\* C28: the loading phase of a feature only moves none -> Generating ->
\* (Blending) -> none; Blending is entered from Generating only, by a job of
\* ai-model-custom that has a model image; and the slot of a background
\* feature or of ai-model-ai is never in phase Blending.
C28_PhaseOrder ==
    [][/\ \A k \in FeatureKeys :
            \/ StatusOf(k)'.isLoading = StatusOf(k).isLoading
            \/ <<StatusOf(k).isLoading, StatusOf(k)'.isLoading>> \in PhaseMoves
       /\ \A k \in FeatureKeys :
            (StatusOf(k).isLoading # Blending /\ StatusOf(k)'.isLoading = Blending)
            => /\ k = "ai-model-custom"
               /\ \E j \in jobs : j.featureKey = k /\ j.blend
       /\ \A k \in FeatureKeys \ {"ai-model-custom"} :
            StatusOf(k).isLoading # Blending]_vars

\* C29: when every await settles, every job in flight ends; the step that
\* ends it leaves the phase of its feature at none and its record done or out
\* of the log; and no phase and no record stays in a loading state for ever.
C29_JobsTerminate ==
    /\ \A id \in 0..(MaxGenerations - 1) :
          /\ (\E j \in jobs : j.id = id) ~> (\A j \in jobs : j.id # id)
          /\ (\E g \in RecordsOf(id) : g.status = "loading")
               ~> (\A g \in RecordsOf(id) : g.status = "done")
    /\ \A k \in FeatureKeys :
          (StatusOf(k).isLoading # NotLoading) ~> (StatusOf(k).isLoading = NotLoading)
    /\ [][\A j \in jobs :
             (Succeeds(j) \/ \E e \in ErrorMessages : JobFailed(j, e))
             => /\ StatusOf(j.featureKey)'.isLoading = NotLoading
                /\ \A g \in FindGeneration(sessionGenerations', j.id) :
                      g.status = "done"]_vars

\* both ids were given out and both jobs have ended, one with a done record
\* and one with its record removed and an error shown; no phase and no
\* record is loading
C29_Witness ==
    /\ generationIdCounter = MaxGenerations
    /\ jobs = {}
    /\ \A k \in FeatureKeys : StatusOf(k).isLoading = NotLoading
    /\ Len(sessionGenerations) = 1
    /\ sessionGenerations[1].status = "done"
    /\ \E k \in FeatureKeys : StatusOf(k).error \in ErrorMessages

\* C30: no step of a prompt-suggestion request, its start, its success or
\* its failure, changes the loading phase of any feature's status slot.
C30_PromptGenKeepsPhases ==
    [][(\/ handlePromptGen
        \/ \E k \in PromptKinds, sg \in Suggestions : PromptGenSucceeded(k, sg)
        \/ \E k \in PromptKinds, e \in ErrorMessages : PromptGenFailed(k, e))
       => \A f \in FeatureKeys :
             StatusOf(f)'.isLoading = StatusOf(f).isLoading]_vars

\* C31: when a job of feature K succeeds while another feature is active, the
\* new-result flag is raised; the flag is lowered only by opening the history
\* panel or by Start Over.  The first part is stated for completions that
\* arrive while neither history panel is open.
C31_NotificationRaised ==
    [][/\ \A j \in jobs :
            (/\ Succeeds(j)
             /\ j.featureKey # getCurrentFeatureKey
             /\ activeTab # "history"
             /\ ~isMobileHistoryOpen)
            => newHistoryNotification'
       /\ (newHistoryNotification /\ ~newHistoryNotification')
            => (openHistoryTab \/ openMobileHistory \/ handleStartOver)]_vars

\* C32: selecting a record restores the controls and the selection and sets
\* each source image to the URL of the record's snapshot (to no image if the
\* snapshot has none), also when that URL does not decode.
C32_RestoreSurvivesDecodeFailure ==
    [][\A id \in IssuedIds : \A g \in RecordsOf(id) :
         handleSelectGeneration(id)
         => /\ mode' = g.snapshot.mode
            /\ backgroundSubMode' = g.snapshot.backgroundSubMode
            /\ modelSource' = g.snapshot.modelSource
            /\ backgroundColor' = g.snapshot.backgroundColor
            /\ activeGenerationId' = id
            /\ productImage'.url = g.snapshot.productImageUrl
            /\ modelImage'.url = g.snapshot.modelImageUrl]_vars

\* C33: undo and redo leave the images and the cursor of the stack of every
\* feature but the active one, and every record of the log, as they are.
C33_UndoRedoOnlyActiveStack ==
    [][(handleUndo \/ handleRedo)
       => /\ \A k \in FeatureKeys \ {getCurrentFeatureKey} :
               generationStacks'[k] = generationStacks[k]
          /\ sessionGenerations' = sessionGenerations]_vars

\* two features have one image each; the image of the active feature was
\* undone while the cursor of the other still stands on its image, and both
\* records are in the log
C33_Witness ==
    /\ Idle
    /\ Len(currentStack.images) = 1
    /\ currentStack.currentIndex = -1
    /\ \E k \in FeatureKeys \ {getCurrentFeatureKey} :
          /\ Len(generationStacks[k].images) = 1
          /\ generationStacks[k].currentIndex = 0
    /\ Len(sessionGenerations) = 2
    /\ \A i \in 1..2 : sessionGenerations[i].status = "done"

InternalServerError(errorMessage) ==
    {toLowerCase(errorMessage[i]) : i \in 1..Len(errorMessage)}
      \cap {"500", "503", "internal"} # {}

\* a region-restriction error: status 412 with the country notice
RegionRestriction(errorMessage) ==
    /\ "412" \in {errorMessage[i] : i \in 1..Len(errorMessage)}
    /\ "not available in your country" \in
         {toLowerCase(errorMessage[i]) : i \in 1..Len(errorMessage)}

CallEnded == geminiCall.pc \in {"returned", "thrown"}

\* C35: callGeminiWithRetry makes at most 3 attempts and always ends with a
\* response or an error; it makes another attempt only after an
\* internal-server error that is not a region restriction and only while fewer
\* than 3 attempts were made, waiting 1000 ms and then 2000 ms; a region
\* restriction and every other error end the call on the attempt where they
\* occur
C35_BoundedRetry ==
    /\ [](geminiCall.attempt <= 3)
    /\ [](geminiCall.delays \in {<<>>, <<1000>>, <<1000, 2000>>})
    /\ [](CallEnded => geminiCall.outcome # Null)
    /\ [][/\ geminiCall'.attempt > geminiCall.attempt /\ geminiCall.attempt > 0
            => /\ geminiCall'.attempt = geminiCall.attempt + 1
               /\ geminiCall.attempt < 3
               /\ Len(geminiCall.delays) = geminiCall.attempt
               /\ InternalServerError(geminiCall.errors[geminiCall.attempt])
               /\ ~RegionRestriction(geminiCall.errors[geminiCall.attempt])
          /\ \A errorMessage \in ApiErrorMessages :
               (/\ generateContentRejected(errorMessage)
                /\ \/ RegionRestriction(errorMessage)
                   \/ ~InternalServerError(errorMessage)
                   \/ geminiCall.attempt = 3)
               => /\ geminiCall'.pc = "thrown"
                  /\ geminiCall'.attempt = geminiCall.attempt
                  /\ geminiCall'.delays = geminiCall.delays
          /\ CallEnded => UNCHANGED geminiCall]_vars
    /\ <>CallEnded

\* the third attempt failed with an internal-server error after waits of
\* 1000 ms and 2000 ms, and the call threw that error
C35_Witness ==
    /\ geminiCall.pc = "thrown"
    /\ geminiCall.attempt = 3
    /\ geminiCall.delays = <<1000, 2000>>
    /\ Len(geminiCall.errors) = 3
    /\ geminiCall.outcome = geminiCall.errors[3]
    /\ InternalServerError(geminiCall.errors[3])

\* C36: whenever the selection is set, a record with that id is in the log
C36_SelectionExists ==
    activeGenerationId # NoGeneration => RecordsOf(activeGenerationId) # {}

\* C37: for every feature, the loading phase is set exactly while a generation
\* job of that feature is in flight
C37_PhaseIffJobInFlight ==
    \A k \in FeatureKeys :
       (StatusOf(k).isLoading # NotLoading) <=> (JobsOf(k) # {})

\* C38: no status slot holds a loading phase together with an error
C38_LoadingExcludesError ==
    \A k \in FeatureKeys :
       ~(StatusOf(k).isLoading # NotLoading /\ StatusOf(k).error # Null)

\* a record of the log is Loading without an image or Done with one
RecordWellFormed(g) ==
    \/ g.status = "loading" /\ g.src = Null
    \/ g.status = "done" /\ g.src # Null

\* C39: every record of the log is Loading with no image or Done with an
\* image; a Loading record is in the log only while its job is in flight; a
\* Done record never changes its status or its image again
C39_RecordLifecycle ==
    /\ [](\A i \in 1..Len(sessionGenerations) :
            /\ RecordWellFormed(sessionGenerations[i])
            /\ sessionGenerations[i].status = "loading"
                 => \E j \in jobs : j.id = sessionGenerations[i].id)
    /\ [][\A i \in 1..Len(sessionGenerations) :
            \A k \in 1..Len(sessionGenerations') :
               (/\ sessionGenerations[i].status = "done"
                /\ sessionGenerations'[k].id = sessionGenerations[i].id)
               => /\ sessionGenerations'[k].status = "done"
                  /\ sessionGenerations'[k].src = sessionGenerations[i].src]_vars

\* the log holds a finished record with its image and, above it, the loading
\* record of a job in flight
C39_Witness ==
    /\ Len(sessionGenerations) = 2
    /\ sessionGenerations[1].status = "loading"
    /\ sessionGenerations[1].src = Null
    /\ \E j \in jobs : j.id = sessionGenerations[1].id
    /\ sessionGenerations[2].status = "done"
    /\ sessionGenerations[2].src = ResultImage(sessionGenerations[2].id)

SelectionMatchesFeature ==
    activeTab = "settings"
      => \A g \in RecordsOf(activeGenerationId) :
            g.featureKey = getCurrentFeatureKey

\* C40: once the pending effects have run, whenever the settings tab is
\* active and the selection names a record of the log, the feature key of that
\* record is the active feature key; one run of the effects establishes it
C40_SelectionMatchesFeature ==
    /\ [](Idle => SelectionMatchesFeature)
    /\ [][FlushEffects => (Idle' /\ SelectionMatchesFeature')]_vars

\* with the transparent colour chosen in the colour sub-mode, the selection
\* names a record of background-transparent while an older record of
\* background-color is in the log
C40_Witness ==
    /\ Idle
    /\ activeTab = "settings"
    /\ backgroundSubMode = "color"
    /\ backgroundColor = "transparent"
    /\ \E g \in RecordsOf(activeGenerationId) :
         g.featureKey = "background-transparent"
    /\ \E i \in 1..Len(sessionGenerations) :
         /\ sessionGenerations[i].featureKey = "background-color"
         /\ sessionGenerations[i].status = "done"

====
